---- MODULE Spec2Model ----
(***************************************************************************)
(* Model of the trading_bot command-line client: bot/validators.py,        *)
(* bot/client.py, bot/orders.py and bot/cli.py.                            *)
(*                                                                         *)
(* Text handled by strip/upper/isalnum is a sequence of one-character      *)
(* strings.  A Python float is a record [t, k, m]: k is "num", "nan",      *)
(* "inf" or "-inf", and m the value in thousandths when k = "num".  A dict *)
(* is a sequence of <<key, value>> pairs in insertion order; dict objects  *)
(* live in `heap` and are passed by reference, as in Python.               *)
(***************************************************************************)
EXTENDS Integers, Sequences, FiniteSets, TLC

VARIABLES
    creds,      \* resolved api_key / api_secret (cli.py:98-99)
    args,       \* the argparse namespace: raw --symbol, --side, ...
    pc,         \* position of the single thread of control
    val,        \* main's locals symbol, side, order_type, quantity, price, stop_price
    exc,        \* the exception in flight, or NoExc
    reported,   \* the ValidationError main printed, or NoExc
    exitCode,   \* -1 while running, then the process's exit code
    client,     \* the BinanceClient object, or NoClient
    heap,       \* dict objects by reference
    paramsRef,  \* the reference held in `params`
    clock,      \* time.time() * 1000, as last read
    sent,       \* every call of session.request: method, endpoint, params sent
    http,       \* what the last session.request call did
    result,     \* what _request / place_order returned
    presented,  \* orders.place_order's closing message: "", "success" or "unknown"
    calls       \* harness only: one record per call made on the caller's mapping

vars == <<creds, args, pc, val, exc, reported, exitCode, client, heap,
          paramsRef, clock, sent, http, result, presented, calls>>

-----------------------------------------------------------------------------
(* Bounds of the model.                                                    *)

MaxClock == 2     \* clock readings are drawn from 1..MaxClock
MaxCalls == 2     \* calls the harness makes on one caller-held mapping

-----------------------------------------------------------------------------
(* Python values.                                                          *)

None == [t |-> "None"]
PyInt(n) == [t |-> "int", v |-> n]
Text(string) == [t |-> "text", v |-> string]
Chars(s) == [t |-> "chars", v |-> s]

\* An exception object: its class, and what it carries.
Exception(type, code, message, field) ==
    [type |-> type, code |-> code, message |-> message, field |-> field]
NoExc == Exception("None", None, None, "")

Num(m) == [t |-> "float", k |-> "num", m |-> m]
NaN == [t |-> "float", k |-> "nan", m |-> 0]
PosInf == [t |-> "float", k |-> "inf", m |-> 0]
NegInf == [t |-> "float", k |-> "-inf", m |-> 0]

\* x <= 0 on floats: every comparison with nan is False.
FloatLeZero(x) ==
    CASE x.k = "num" -> x.m <= 0
      [] x.k = "-inf" -> TRUE
      [] x.k = "inf" -> FALSE
      [] x.k = "nan" -> FALSE

\* A command-line text that is read as a number.
Raw(text) == [t |-> "str", v |-> text]

\* float(x): ok = FALSE is TypeError (None) or ValueError (text that is no
\* number).  Python reads "nan" and "inf" as numbers.
PyFloat(x) ==
    IF x = None THEN [ok |-> FALSE, val |-> None]
    ELSE CASE x.v = "0.001" -> [ok |-> TRUE, val |-> Num(1)]
           [] x.v = "100000" -> [ok |-> TRUE, val |-> Num(100000000)]
           [] x.v = "95000" -> [ok |-> TRUE, val |-> Num(95000000)]
           [] x.v = "0" -> [ok |-> TRUE, val |-> Num(0)]
           [] x.v = "-1" -> [ok |-> TRUE, val |-> Num(-1000)]
           [] x.v = "nan" -> [ok |-> TRUE, val |-> NaN]
           [] x.v = "inf" -> [ok |-> TRUE, val |-> PosInf]
           [] x.v = "-inf" -> [ok |-> TRUE, val |-> NegInf]
           [] OTHER -> [ok |-> FALSE, val |-> None]

Lower == <<"a","b","c","d","e","f","g","h","i","j","k","l","m",
           "n","o","p","q","r","s","t","u","v","w","x","y","z">>
Upper == <<"A","B","C","D","E","F","G","H","I","J","K","L","M",
           "N","O","P","Q","R","S","T","U","V","W","X","Y","Z">>
Digits == <<"0","1","2","3","4","5","6","7","8","9">>

Range(s) == {s[i] : i \in DOMAIN s}

UpperChar(c) ==
    IF c \in Range(Lower)
    THEN Upper[CHOOSE i \in DOMAIN Lower : Lower[i] = c]
    ELSE c

\* str.upper()
StrUpper(s) == [i \in DOMAIN s |-> UpperChar(s[i])]

RECURSIVE LStrip(_)
LStrip(s) == IF s # <<>> /\ Head(s) = " " THEN LStrip(Tail(s)) ELSE s

RECURSIVE RStrip(_)
RStrip(s) ==
    IF s # <<>> /\ s[Len(s)] = " " THEN RStrip(SubSeq(s, 1, Len(s) - 1)) ELSE s

\* str.strip()
StrStrip(s) == RStrip(LStrip(s))

\* str.isalnum(): False for the empty string.
IsAlnum(s) ==
    /\ s # <<>>
    /\ \A i \in DOMAIN s : s[i] \in Range(Lower) \cup Range(Upper) \cup Range(Digits)

-----------------------------------------------------------------------------
(* bot/validators.py.  A validator's outcome is [ok, val, err]: ok = FALSE *)
(* is `raise ValidationError`, err naming the field and the rule.  Texts    *)
(* come and go as Chars(sequence of characters).                           *)

BUY == <<"B","U","Y">>
SELL == <<"S","E","L","L">>
MARKET == <<"M","A","R","K","E","T">>
LIMIT == <<"L","I","M","I","T">>
STOP_MARKET == <<"S","T","O","P","_","M","A","R","K","E","T">>

VALID_SIDES == {BUY, SELL}
VALID_ORDER_TYPES == {MARKET, LIMIT, STOP_MARKET}

ValidationError(field, rule) == Exception("ValidationError", None, Text(rule), field)

Ok(v) == [ok |-> TRUE, val |-> v, err |-> NoExc]
Fail(field, rule) == [ok |-> FALSE, val |-> None, err |-> ValidationError(field, rule)]

validate_symbol(symbol) ==
    LET s == StrUpper(StrStrip(symbol.v))
    IN  IF ~IsAlnum(s) THEN Fail("symbol", "alphanumeric") ELSE Ok(Chars(s))

validate_side(side) ==
    LET s == StrUpper(StrStrip(side.v))
    IN  IF s \notin VALID_SIDES THEN Fail("side", "one of") ELSE Ok(Chars(s))

validate_order_type(order_type) ==
    LET s == StrUpper(StrStrip(order_type.v))
    IN  IF s \notin VALID_ORDER_TYPES THEN Fail("order_type", "one of") ELSE Ok(Chars(s))

validate_quantity(quantity) ==
    LET f == PyFloat(quantity)
    IN  IF ~f.ok THEN Fail("quantity", "number")
        ELSE IF FloatLeZero(f.val) THEN Fail("quantity", "greater than 0")
        ELSE Ok(f.val)

\* validate_price without the order-type test: a supplied price is checked
\* whatever the order type.
PriceCheckedWheneverSupplied(price, order_type) ==
    IF order_type.v \in {LIMIT, STOP_MARKET} \/ price # None
    THEN IF price = None THEN Fail("price", "required")
         ELSE LET f == PyFloat(price)
              IN  IF ~f.ok THEN Fail("price", "number")
                  ELSE IF FloatLeZero(f.val) THEN Fail("price", "greater than 0")
                  ELSE Ok(f.val)
    ELSE Ok(None)

validate_price(price, order_type) ==
    IF order_type.v \in {LIMIT, STOP_MARKET}
    THEN IF price = None THEN Fail("price", "required")
         ELSE LET f == PyFloat(price)
              IN  IF ~f.ok THEN Fail("price", "number")
                  ELSE IF FloatLeZero(f.val) THEN Fail("price", "greater than 0")
                  ELSE Ok(f.val)
    ELSE Ok(None)

validate_stop_price(stop_price, order_type) ==
    IF order_type.v = STOP_MARKET
    THEN IF stop_price = None THEN Fail("stop_price", "required")
         ELSE LET f == PyFloat(stop_price)
              IN  IF ~f.ok THEN Fail("stop_price", "number")
                  ELSE IF FloatLeZero(f.val) THEN Fail("stop_price", "greater than 0")
                  ELSE Ok(f.val)
    ELSE Ok(None)

-----------------------------------------------------------------------------
(* Dicts: <<key, value>> pairs in insertion order.                         *)

DictHas(d, k) == \E i \in DOMAIN d : d[i][1] = k

\* d.get(k, default)
DictGet(d, k, default) ==
    IF DictHas(d, k) THEN d[CHOOSE i \in DOMAIN d : d[i][1] = k][2] ELSE default

\* d[k] = v: an existing key keeps its place, a new key goes last.
DictSet(d, k, v) ==
    IF DictHas(d, k)
    THEN [i \in DOMAIN d |-> IF d[i][1] = k THEN <<k, v>> ELSE d[i]]
    ELSE Append(d, <<k, v>>)

DictKeys(d) == {d[i][1] : i \in DOMAIN d}

-----------------------------------------------------------------------------
(* bot/client.py                                                           *)

TESTNET_BASE_URL == "https://testnet.binancefuture.com"
RequestTimeout == 10
SuccessCode == 200

BinanceAPIError(code, message) == Exception("BinanceAPIError", code, message, "")

\* BinanceClient.__init__: the object, or ValueError for an empty credential.
NewClient(api_key, api_secret) ==
    IF api_key = "" \/ api_secret = ""
    THEN [ok |-> FALSE, obj |-> None, err |-> Exception("ValueError", None, Text("empty"), "")]
    ELSE [ok |-> TRUE,
          obj |-> [t |-> "BinanceClient", api_key |-> api_key,
                   api_secret |-> api_secret, base_url |-> TESTNET_BASE_URL],
          err |-> NoExc]

\* urlencode(params): the key=value pairs, in the mapping's order.
UrlEncode(d) == [i \in DOMAIN d |-> [key |-> d[i][1], eq |-> "=", value |-> d[i][2]]]

\* hmac.new(secret, message, sha256).hexdigest(), as an ideal MAC: equal
\* digests only for equal key and message.
HmacSha256Hex(secret, message) == [t |-> "hexdigest", key |-> secret, msg |-> message]

\* BinanceClient._sign(params): writes timestamp and signature into the dict
\* object `ref` names and returns the same object.
Sign(h, ref, secret, now) ==
    LET d1 == DictSet(h[ref], "timestamp", PyInt(now))
        qs == UrlEncode(d1)
        d2 == DictSet(d1, "signature", HmacSha256Hex(secret, qs))
    IN  [heap |-> [h EXCEPT ![ref] = d2], ret |-> ref, signedBytes |-> qs]

\* _request, lines 71-73: `params or {}` makes a new dict when the caller's is
\* empty (or None: ref = 0); a signed call then signs whatever `params` names.
PrepareParams(h, ref, signed, secret, now) ==
    LET fresh == ref = 0 \/ h[ref] = <<>>
        h1 == IF fresh THEN Append(h, <<>>) ELSE h
        r1 == IF fresh THEN Len(h) + 1 ELSE ref
    IN  IF signed THEN Sign(h1, r1, secret, now)
        ELSE [heap |-> h1, ret |-> r1, signedBytes |-> <<>>]

\* The classes of requests.exceptions that session.request raises, each with
\* the classes it inherits from (ConnectTimeout inherits from both
\* ConnectionError and Timeout).
RequestsBases(cls) ==
    CASE cls = "ConnectionError" -> {"ConnectionError", "RequestException"}
      [] cls = "ConnectTimeout" ->
            {"ConnectTimeout", "ConnectionError", "Timeout", "RequestException"}
      [] cls = "ReadTimeout" -> {"ReadTimeout", "Timeout", "RequestException"}
      [] cls = "TooManyRedirects" -> {"TooManyRedirects", "RequestException"}

RaisedClasses == {"ConnectionError", "ConnectTimeout", "ReadTimeout", "TooManyRedirects"}

\* What session.request does: raises, or returns a response whose body is
\* JSON (data) or not.
HttpRaise(cls) == [t |-> "raise", cls |-> cls, isJson |-> FALSE, data |-> None]
HttpText == [t |-> "response", cls |-> "", isJson |-> FALSE, data |-> None]
HttpJson(data) == [t |-> "response", cls |-> "", isJson |-> TRUE, data |-> data]
NoHttp == [t |-> "none", cls |-> "", isJson |-> FALSE, data |-> None]

JsonDict(d) == [t |-> "dict", v |-> d]
JsonList == [t |-> "list", v |-> <<>>]

\* _request with the error code test dropped: codes equal to 200 raise too.
HandleResponseAnyCode(h) ==
    IF h.t = "raise"
    THEN IF "ConnectionError" \in RequestsBases(h.cls)
         THEN [exc |-> Exception("ConnectionError", None, Text(h.cls), ""), ret |-> None]
         ELSE IF "Timeout" \in RequestsBases(h.cls)
         THEN [exc |-> Exception("TimeoutError", None, Text("timed out"), ""), ret |-> None]
         ELSE [exc |-> Exception(h.cls, None, Text(h.cls), ""), ret |-> None]
    ELSE IF ~h.isJson
    THEN [exc |-> BinanceAPIError(PyInt(-1), Text("Non-JSON response")), ret |-> None]
    ELSE IF h.data.t = "dict" /\ DictHas(h.data.v, "code")
    THEN [exc |-> BinanceAPIError(DictGet(h.data.v, "code", None),
                                  DictGet(h.data.v, "msg", Text("Unknown error"))),
          ret |-> None]
    ELSE [exc |-> NoExc, ret |-> h.data]

\* _request, lines 78-98: the except clauses in their order, then the JSON
\* decoding and the error-code test.  [exc, ret]: raises exc, or returns ret.
HandleResponse(h) ==
    IF h.t = "raise"
    THEN IF "ConnectionError" \in RequestsBases(h.cls)
         THEN [exc |-> Exception("ConnectionError", None, Text(h.cls), ""), ret |-> None]
         ELSE IF "Timeout" \in RequestsBases(h.cls)
         THEN [exc |-> Exception("TimeoutError", None, Text("timed out"), ""), ret |-> None]
         ELSE [exc |-> Exception(h.cls, None, Text(h.cls), ""), ret |-> None]
    ELSE IF ~h.isJson
    THEN [exc |-> BinanceAPIError(PyInt(-1), Text("Non-JSON response")), ret |-> None]
    ELSE IF /\ h.data.t = "dict"
            /\ DictHas(h.data.v, "code")
            /\ DictGet(h.data.v, "code", None) # PyInt(SuccessCode)
    THEN [exc |-> BinanceAPIError(DictGet(h.data.v, "code", None),
                                  DictGet(h.data.v, "msg", Text("Unknown error"))),
          ret |-> None]
    ELSE [exc |-> NoExc, ret |-> h.data]

\* BinanceClient.place_order, lines 123-135: the parameters of the order.
OrderParams(symbol, side, order_type, quantity, price, stop_price) ==
    LET base == << <<"symbol", symbol>>, <<"side", side>>,
                   <<"type", order_type>>, <<"quantity", quantity>> >>
        lim  == IF order_type.v = LIMIT
                THEN DictSet(DictSet(base, "price", price), "timeInForce", Text("GTC"))
                ELSE base
    IN  IF order_type.v = STOP_MARKET THEN DictSet(lim, "stopPrice", stop_price) ELSE lim

-----------------------------------------------------------------------------
(* The inputs of a run: what argparse hands to main, the credentials, and  *)
(* what the exchange and the network may do.                               *)

BTCUSDT == <<"B","T","C","U","S","D","T">>

RawSymbols ==
    { Chars(BTCUSDT),
      Chars(<<" ","b","t","c","u","s","d","t"," ">>),
      Chars(<<"B","T","C","-","U","S","D","T">>) }

\* argparse's choices= admits exactly these texts for --side and --type.
SideChoices == {Chars(BUY), Chars(SELL)}
TypeChoices == {Chars(MARKET), Chars(LIMIT), Chars(STOP_MARKET)}

QuantityTexts ==
    {Raw("0.001"), Raw("0"), Raw("-1"), Raw("abc"), Raw("nan"), Raw("inf"), Raw("-inf")}
PriceTexts == {None, Raw("100000"), Raw("0"), Raw("-1"), Raw("abc"), Raw("nan")}
StopPriceTexts == {None, Raw("95000"), Raw("0"), Raw("abc")}

Credentials ==
    { [api_key |-> "key", api_secret |-> "secret"],
      [api_key |-> "", api_secret |-> "secret"],
      [api_key |-> "key", api_secret |-> ""] }

\* JSON objects the exchange may answer with: an optional code, an optional
\* msg, an optional status.
Optional(key, values) == {<<>>} \cup {<< <<key, v>> >> : v \in values}

ResponseDicts ==
    { c \o m \o st :
        c \in Optional("code", {PyInt(SuccessCode), PyInt(-2010)}),
        m \in Optional("msg", {Text("Insufficient balance")}),
        st \in Optional("status", {Text("FILLED"), Text("NEW"),
                                   Text("PARTIALLY_FILLED"), Text("EXPIRED")}) }

HttpOutcomes ==
    {HttpRaise(cls) : cls \in RaisedClasses}
        \cup {HttpText, HttpJson(JsonList)}
        \cup {HttpJson(JsonDict(d)) : d \in ResponseDicts}

\* A local of main that no assignment has bound yet.
Unbound == [t |-> "unbound"]

NoVal == [symbol |-> Unbound, side |-> Unbound, order_type |-> Unbound,
          quantity |-> Unbound, price |-> Unbound, stop_price |-> Unbound]

-----------------------------------------------------------------------------
(* bot/cli.py main, with bot/orders.py place_order and the client calls it *)
(* makes, one action per step of the single thread.                        *)

Init ==
    /\ creds \in Credentials
    /\ args \in [symbol : RawSymbols, side : SideChoices, order_type : TypeChoices,
                 quantity : QuantityTexts, price : PriceTexts,
                 stop_price : StopPriceTexts]
    /\ pc = "main"
    /\ val = NoVal
    /\ exc = NoExc
    /\ reported = NoExc
    /\ exitCode = -1
    /\ client = None
    /\ heap = <<>>
    /\ paramsRef = 0
    /\ clock = 1
    /\ sent = <<>>
    /\ http = NoHttp
    /\ result = None
    /\ presented = ""
    /\ calls = <<>>

\* cli.py:98-105: parser.error exits with status 2.
ResolveCredentials ==
    /\ pc = "main"
    /\ IF creds.api_key = "" \/ creds.api_secret = ""
       THEN exitCode' = 2 /\ pc' = "exited"
       ELSE exitCode' = exitCode /\ pc' = "validate_symbol"
    /\ UNCHANGED <<creds, args, val, exc, reported, client, heap, paramsRef,
                   clock, sent, http, result, presented, calls>>

\* One validator call of the try block, cli.py:108-114: the value is bound
\* and control moves on, or the ValidationError goes to the handler.
ValidatorStep(here, r, field, next) ==
    /\ pc = here
    /\ IF r.ok
       THEN /\ val' = [val EXCEPT ![field] = r.val]
            /\ exc' = exc
            /\ pc' = next
       ELSE /\ val' = val
            /\ exc' = r.err
            /\ pc' = "except_validation"
    /\ UNCHANGED <<creds, args, reported, exitCode, client, heap, paramsRef,
                   clock, sent, http, result, presented, calls>>

ValidateSymbol ==
    ValidatorStep("validate_symbol", validate_symbol(args.symbol), "symbol",
                  "validate_side")

ValidateSide ==
    ValidatorStep("validate_side", validate_side(args.side), "side",
                  "validate_order_type")

ValidateOrderType ==
    ValidatorStep("validate_order_type", validate_order_type(args.order_type),
                  "order_type", "validate_quantity")

ValidateQuantity ==
    ValidatorStep("validate_quantity", validate_quantity(args.quantity),
                  "quantity", "validate_price")

ValidatePrice ==
    ValidatorStep("validate_price", validate_price(args.price, val.order_type),
                  "price", "validate_stop_price")

ValidateStopPrice ==
    ValidatorStep("validate_stop_price",
                  validate_stop_price(args.stop_price, val.order_type),
                  "stop_price", "build_client")

\* The handler without its sys.exit(1): control falls through to the order.
ValidationExceptFallThrough ==
    /\ pc = "except_validation"
    /\ reported' = exc
    /\ pc' = "build_client"
    /\ UNCHANGED <<creds, args, val, exc, exitCode, client, heap, paramsRef,
                   clock, sent, http, result, presented, calls>>

\* cli.py:115-118: report the ValidationError and sys.exit(1).
ValidationExcept ==
    /\ pc = "except_validation"
    /\ reported' = exc
    /\ exitCode' = 1
    /\ pc' = "exited"
    /\ UNCHANGED <<creds, args, val, exc, client, heap, paramsRef, clock, sent,
                   http, result, presented, calls>>

\* cli.py:122
BuildClient ==
    /\ pc = "build_client"
    /\ LET r == NewClient(creds.api_key, creds.api_secret)
       IN  IF r.ok
           THEN client' = r.obj /\ exc' = exc /\ pc' = "place_order"
           ELSE client' = client /\ exc' = r.err /\ pc' = "main_except"
    /\ UNCHANGED <<creds, args, val, reported, exitCode, heap, paramsRef, clock,
                   sent, http, result, presented, calls>>

\* cli.py:123-131, orders.py:63-79, client.py:123-146: orders.place_order
\* prints the summary and calls client.place_order, which builds `params`
\* and calls _request("POST", "/fapi/v1/order", params, signed=True).
PlaceOrder ==
    /\ pc = "place_order"
    /\ heap' = Append(heap, OrderParams(val.symbol, val.side, val.order_type,
                                        val.quantity, val.price, val.stop_price))
    /\ paramsRef' = Len(heap) + 1
    /\ pc' = "request"
    /\ UNCHANGED <<creds, args, val, exc, reported, exitCode, client, clock,
                   sent, http, result, presented, calls>>

\* client.py:71-73: `params or {}`, then _sign at the time the clock shows.
RequestSign ==
    /\ pc = "request"
    /\ \E now \in clock..MaxClock :
         LET r == PrepareParams(heap, paramsRef, TRUE, client.api_secret, now)
         IN  /\ heap' = r.heap
             /\ paramsRef' = r.ret
             /\ clock' = now
    /\ pc' = "send"
    /\ UNCHANGED <<creds, args, val, exc, reported, exitCode, client, sent,
                   http, result, presented, calls>>

HttpRequest(method, endpoint, params) ==
    [method |-> method, endpoint |-> endpoint, params |-> params,
     timeout |-> RequestTimeout]

\* client.py:79: session.request sends the request; the network and the
\* exchange decide what comes back.
Send ==
    /\ pc = "send"
    /\ sent' = Append(sent, HttpRequest("POST", "/fapi/v1/order", heap[paramsRef]))
    /\ \E h \in HttpOutcomes : http' = h
    /\ pc' = "response"
    /\ UNCHANGED <<creds, args, val, exc, reported, exitCode, client, heap,
                   paramsRef, clock, result, presented, calls>>

\* client.py:80-98: _request raises or returns.
RequestFinish ==
    /\ pc = "response"
    /\ exc' = HandleResponse(http).exc
    /\ result' = HandleResponse(http).ret
    /\ pc' = "orders_handle"
    /\ UNCHANGED <<creds, args, val, reported, exitCode, client, heap,
                   paramsRef, clock, sent, http, presented, calls>>

SuccessStatuses == {Text("FILLED"), Text("NEW"), Text("PARTIALLY_FILLED")}

\* place_order with a retry: a network error sends the order again.
OrdersHandleRetry ==
    /\ pc = "orders_handle"
    /\ IF exc.type \in {"ConnectionError", "TimeoutError"}
       THEN /\ exc' = NoExc
            /\ pc' = "send"
            /\ UNCHANGED presented
       ELSE IF exc # NoExc
       THEN /\ pc' = "main_except"
            /\ UNCHANGED <<exc, presented>>
       ELSE IF result.t # "dict"
       THEN /\ exc' = Exception("AttributeError", None, Text("get"), "")
            /\ pc' = "main_except"
            /\ UNCHANGED presented
       ELSE /\ presented' = IF DictGet(result.v, "status", Text("")) \in SuccessStatuses
                             THEN "success" ELSE "unknown"
            /\ pc' = "main_return"
            /\ UNCHANGED exc
    /\ UNCHANGED <<creds, args, val, reported, exitCode, client, heap,
                   paramsRef, clock, sent, http, result, calls>>

\* orders.py:88-113: an exception is logged and re-raised; otherwise the
\* response is formatted with response.get (AttributeError when the JSON
\* body is no object) and its status is presented.
OrdersHandle ==
    /\ pc = "orders_handle"
    /\ IF exc # NoExc
       THEN /\ pc' = "main_except"
            /\ UNCHANGED <<exc, presented>>
       ELSE IF result.t # "dict"
       THEN /\ exc' = Exception("AttributeError", None, Text("get"), "")
            /\ pc' = "main_except"
            /\ UNCHANGED presented
       ELSE /\ presented' = IF DictGet(result.v, "status", Text("")) \in SuccessStatuses
                             THEN "success" ELSE "unknown"
            /\ pc' = "main_return"
            /\ UNCHANGED exc
    /\ UNCHANGED <<creds, args, val, reported, exitCode, client, heap,
                   paramsRef, clock, sent, http, result, calls>>

\* cli.py:132-137: both handlers end in sys.exit(1).
MainExcept ==
    /\ pc = "main_except"
    /\ reported' = IF exc.type \in {"BinanceAPIError", "ConnectionError",
                                     "TimeoutError", "ValueError"}
                    THEN reported ELSE exc
    /\ exitCode' = 1
    /\ pc' = "exited"
    /\ UNCHANGED <<creds, args, val, exc, client, heap, paramsRef, clock, sent,
                   http, result, presented, calls>>

\* main returns: the interpreter exits with status 0.
MainReturn ==
    /\ pc = "main_return"
    /\ exitCode' = 0
    /\ pc' = "exited"
    /\ UNCHANGED <<creds, args, val, exc, reported, client, heap, paramsRef,
                   clock, sent, http, result, presented, calls>>

Next ==
    \/ ResolveCredentials
    \/ ValidateSymbol
    \/ ValidateSide
    \/ ValidateOrderType
    \/ ValidateQuantity
    \/ ValidatePrice
    \/ ValidateStopPrice
    \/ ValidationExcept
    \/ BuildClient
    \/ PlaceOrder
    \/ RequestSign
    \/ Send
    \/ RequestFinish
    \/ OrdersHandle
    \/ MainExcept
    \/ MainReturn

Spec == Init /\ [][Next]_vars

-----------------------------------------------------------------------------
(* A caller that keeps one parameter mapping and hands it to the client's  *)
(* signing code several times: _sign(params) directly, or a signed         *)
(* _request(method, endpoint, params, signed=True).                        *)

CallerMappings ==
    { <<>>,
      << <<"symbol", Chars(BTCUSDT)>> >>,
      << <<"symbol", Chars(BTCUSDT)>>, <<"recvWindow", PyInt(5000)>> >>,
      OrderParams(Chars(BTCUSDT), Chars(BUY), Chars(MARKET), Num(1), None, None) }

SignedEndpoints ==
    { [method |-> "GET", endpoint |-> "/fapi/v2/account"],
      [method |-> "POST", endpoint |-> "/fapi/v1/order"] }

SignInit ==
    /\ creds \in {c \in Credentials : c.api_key # "" /\ c.api_secret # ""}
    /\ args \in [symbol : {Chars(BTCUSDT)}, side : {Chars(BUY)},
                 order_type : {Chars(MARKET)}, quantity : {Raw("0.001")},
                 price : {None}, stop_price : {None}]
    /\ pc = "caller"
    /\ val = NoVal
    /\ exc = NoExc
    /\ reported = NoExc
    /\ exitCode = -1
    /\ client = NewClient(creds.api_key, creds.api_secret).obj
    /\ heap \in {<<d>> : d \in CallerMappings}
    /\ paramsRef = 1
    /\ clock = 1
    /\ sent = <<>>
    /\ http = NoHttp
    /\ result = None
    /\ presented = ""
    /\ calls = <<>>

\* What one call did, seen from the caller: its mapping before and after,
\* the mapping that was signed and sent, and the bytes the MAC was taken over.
CallRecord(op, h, r) ==
    [op |-> op, before |-> h[paramsRef], after |-> r.heap[paramsRef],
     signed |-> r.heap[r.ret], signedBytes |-> r.signedBytes]

\* client._sign(params)
CallSign ==
    /\ pc = "caller"
    /\ Len(calls) < MaxCalls
    /\ \E now \in clock..MaxClock :
         LET r == Sign(heap, paramsRef, client.api_secret, now)
         IN  /\ heap' = r.heap
             /\ clock' = now
             /\ calls' = Append(calls, CallRecord("_sign", heap, r))
    /\ UNCHANGED <<creds, args, pc, val, exc, reported, exitCode, client,
                   paramsRef, sent, http, result, presented>>

\* client._request(method, endpoint, params, signed=True), client.py:71-98.
CallSignedRequest ==
    /\ pc = "caller"
    /\ Len(calls) < MaxCalls
    /\ \E now \in clock..MaxClock, e \in SignedEndpoints, h \in HttpOutcomes :
         LET r == PrepareParams(heap, paramsRef, TRUE, client.api_secret, now)
         IN  /\ heap' = r.heap
             /\ clock' = now
             /\ sent' = Append(sent, HttpRequest(e.method, e.endpoint, r.heap[r.ret]))
             /\ http' = h
             /\ exc' = HandleResponse(h).exc
             /\ result' = HandleResponse(h).ret
             /\ calls' = Append(calls, CallRecord("_request", heap, r))
    /\ UNCHANGED <<creds, args, pc, val, reported, exitCode, client, paramsRef,
                   presented>>

SignNext == CallSign \/ CallSignedRequest

SpecSign == SignInit /\ [][SignNext]_vars

-----------------------------------------------------------------------------
(* Properties.                                                             *)

\* x > 0 on floats.
FloatGtZero(x) ==
    CASE x.k = "num" -> x.m > 0
      [] x.k = "inf" -> TRUE
      [] x.k = "-inf" -> FALSE
      [] x.k = "nan" -> FALSE

\* The run got past argument parsing with both credentials non-empty.
PastParsing == creds.api_key # "" /\ creds.api_secret # ""

Exited == pc = "exited"

OrderRequests == {i \in DOMAIN sent : /\ sent[i].method = "POST"
                                       /\ sent[i].endpoint = "/fapi/v1/order"}

\* _request has raised or returned for the last HTTP call.
RequestDone == http # NoHttp /\ pc # "response"

\* C1: a run past argument parsing exits with code 1 when a validator
\* rejected a field, when the transport raised ConnectionError or
\* TimeoutError, or when the response was classified as an API error, and
\* with code 0 whenever the transport returned a response body.
C1_ExitCodes ==
    (Exited /\ PastParsing) =>
        /\ reported.type = "ValidationError" => exitCode = 1
        /\ exc.type \in {"ConnectionError", "TimeoutError", "BinanceAPIError"}
              => exitCode = 1
        /\ result # None => exitCode = 0

\* C2: at most one order-submission request is sent in a run, and once the
\* transport has raised ConnectionError, TimeoutError or an API error the
\* run holds that one request and no other up to its exit.
C2_AtMostOneOrderRequest ==
    /\ Cardinality(OrderRequests) <= 1
    /\ exc.type \in {"ConnectionError", "TimeoutError", "BinanceAPIError"}
          => Len(sent) = 1

C2_Witness ==
    /\ Exited
    /\ exc.type = "TimeoutError"
    /\ Cardinality(OrderRequests) = 1

\* The six validators' outcomes on the raw arguments, in main's call order.
ValidatorResults ==
    LET t == validate_order_type(args.order_type)
    IN  << validate_symbol(args.symbol),
           validate_side(args.side),
           t,
           validate_quantity(args.quantity),
           IF t.ok THEN validate_price(args.price, t.val) ELSE t,
           IF t.ok THEN validate_stop_price(args.stop_price, t.val) ELSE t >>

\* The positions of the validators that reject the raw arguments.
Failing(rs) == {i \in 1..6 : ~rs[i].ok}

\* The error of the first validator, in call order, that rejects.
FirstFailure(rs) == rs[CHOOSE i \in Failing(rs) : \A j \in Failing(rs) : i <= j].err

\* C3: no client is built and no HTTP request is sent unless all six
\* validators succeeded; a run in which a validator fails exits with the
\* first failing validator's error reported.
C3_ValidationBeforeNetwork ==
    LET rs == ValidatorResults
    IN  /\ (client # None \/ sent # <<>>) => Failing(rs) = {}
        /\ (Exited /\ PastParsing /\ Failing(rs) # {}) =>
              /\ reported = FirstFailure(rs)
              /\ exitCode = 1
              /\ client = None
              /\ sent = <<>>

C3_Witness ==
    /\ Exited
    /\ validate_symbol(args.symbol).ok
    /\ ~validate_quantity(args.quantity).ok
    /\ args.order_type.v = LIMIT /\ args.price = None
    /\ reported.field = "quantity"

\* C4: the parameters sent contain `price` exactly when validate_price
\* returned a value, and `stopPrice` exactly when validate_stop_price did.
C4_SentParamsMirrorValidator ==
    \A i \in DOMAIN sent :
        /\ DictHas(sent[i].params, "price") <=> val.price # None
        /\ DictHas(sent[i].params, "stopPrice") <=> val.stop_price # None

\* A raw text that is a number greater than 0.
IsPositiveNumber(x) == PyFloat(x).ok /\ FloatGtZero(PyFloat(x).val)

\* C5: for STOP_MARKET with valid symbol, side and quantity, validation fails
\* when the stop price is omitted and succeeds, reaching order submission,
\* whenever the stop price is a number greater than 0.
C5_StopMarketValidation ==
    ( /\ Exited /\ PastParsing
      /\ args.order_type.v = STOP_MARKET
      /\ validate_symbol(args.symbol).ok
      /\ validate_side(args.side).ok
      /\ validate_quantity(args.quantity).ok ) =>
        /\ args.stop_price = None => reported.type = "ValidationError"
        /\ IsPositiveNumber(args.stop_price) =>
              /\ reported.type # "ValidationError"
              /\ Cardinality(OrderRequests) = 1

\* C6: _request raises TimeoutError for every timeout of the HTTP call,
\* connect or read, and ConnectionError for every connection failure that
\* is no timeout.
C6_TransportErrorKinds ==
    (RequestDone /\ http.t = "raise") =>
        /\ http.cls \in {"ConnectTimeout", "ReadTimeout"} => exc.type = "TimeoutError"
        /\ http.cls = "ConnectionError" => exc.type = "ConnectionError"

\* C7: for a response the HTTP call returned, _request raises an API error
\* with code -1 for a non-JSON body, raises an API error with the body's
\* code and msg ("Unknown error" without msg) for a JSON object whose code
\* is not 200, and returns every other JSON body unchanged.
C7_ResponseClassification ==
    (pc = "orders_handle" /\ http.t = "response") =>
        IF ~http.isJson
        THEN /\ exc.type = "BinanceAPIError"
             /\ exc.code = PyInt(-1)
             /\ result = None
        ELSE IF /\ http.data.t = "dict"
                /\ \E i \in DOMAIN http.data.v :
                      /\ http.data.v[i][1] = "code"
                      /\ http.data.v[i][2] # PyInt(200)
        THEN /\ exc.type = "BinanceAPIError"
             /\ \E i \in DOMAIN http.data.v : http.data.v[i] = <<"code", exc.code>>
             /\ \/ \E i \in DOMAIN http.data.v : http.data.v[i] = <<"msg", exc.message>>
                \/ /\ \A i \in DOMAIN http.data.v : http.data.v[i][1] # "msg"
                   /\ exc.message = Text("Unknown error")
             /\ result = None
        ELSE /\ exc = NoExc
             /\ result = http.data

C7_Witness ==
    /\ pc = "orders_handle"
    /\ http.isJson /\ http.data.t = "dict"
    /\ ~DictHas(http.data.v, "msg")
    /\ exc.type = "BinanceAPIError"
    /\ exc.code = PyInt(-2010)
    /\ exc.message = Text("Unknown error")

\* The entries of mapping d, as a set.
Entries(d) == {d[i] : i \in DOMAIN d}

\* C8: a signing call leaves the caller's mapping as it was, the signed
\* mapping is the caller's entries plus timestamp and signature, and the
\* signed bytes of a call never hold an earlier call's signature.
C8_SignLeavesCallerMapping ==
    \A i \in DOMAIN calls :
        /\ calls[i].after = calls[i].before
        /\ Entries(calls[i].before) \subseteq Entries(calls[i].signed)
        /\ DictKeys(calls[i].signed) = DictKeys(calls[i].before) \cup {"timestamp", "signature"}
        /\ \A j \in DOMAIN calls[i].signedBytes : calls[i].signedBytes[j].key # "signature"

\* validate_price / validate_stop_price has been called and has finished.
PriceCalled == val.quantity # Unbound /\ pc # "validate_price"
StopPriceCalled == val.price # Unbound /\ pc # "validate_stop_price"

\* C9: for MARKET both validators return absent for every input and never
\* fail; for LIMIT validate_stop_price returns absent for every input, and
\* validate_price fails when the price is omitted or <= 0 and returns the
\* value when it is > 0.
C9_PresenceByOrderType ==
    /\ (args.order_type.v = MARKET /\ PriceCalled) =>
          /\ val.price = None
          /\ exc.field # "price"
    /\ (args.order_type.v \in {MARKET, LIMIT} /\ StopPriceCalled) =>
          /\ val.stop_price = None
          /\ exc.field # "stop_price"
    /\ (args.order_type.v = LIMIT /\ PriceCalled) =>
          /\ args.price = None => (val.price = Unbound /\ exc.field = "price")
          /\ (PyFloat(args.price).ok /\ FloatLeZero(PyFloat(args.price).val))
                => (val.price = Unbound /\ exc.field = "price")
          /\ IsPositiveNumber(args.price)
                => (val.price = PyFloat(args.price).val /\ exc.field # "price")

C9_Witness ==
    /\ Exited /\ exitCode = 0
    /\ args.order_type.v = MARKET
    /\ args.price = Raw("abc") /\ args.stop_price = Raw("0")
    /\ val.price = None /\ val.stop_price = None

\* C10: every quantity validate_quantity returns, and so every quantity
\* sent, is a number strictly greater than 0.
C10_QuantityPositive ==
    /\ val.quantity # Unbound => FloatGtZero(val.quantity)
    /\ \A i \in DOMAIN sent : FloatGtZero(DictGet(sent[i].params, "quantity", None))

====
